---- MODULE Spec2Model ----
(***************************************************************************)
(* Model of the RAG-Video-Transcription pipeline:                          *)
(*   - the segment indexer       (src/src/vector_store.py,                 *)
(*                                src/src/transcript_processor.py)         *)
(*   - the similarity search     (src/src/vector_store.py,                 *)
(*                                src/src/retriever.py)                    *)
(*   - the segment consolidator  (src/app/streamlit_app.py)                *)
(*   - the answer synthesizer    (src/src/generator.py)                    *)
(*   - the caption extractor     (src/extractor/genai_extractor.py)        *)
(*   - the store readiness check and two concurrent upsert_video calls     *)
(*                               (src/src/vector_store.py)                 *)
(* Each component has its own specification over the shared variables; a   *)
(* specification keeps the variables of the other components at their      *)
(* idle values.                                                            *)
(***************************************************************************)
EXTENDS Integers, Sequences, FiniteSets, Bags, TLC

VARIABLES
    videoFiles,    \* files present in the videos directory
    transcripts,   \* the transcripts directory: caption files, oldest mtime first
    transcriber,   \* TRUE once init_transcriber has configured a transcriber
    indexExists,   \* the "video-transcriptions" index exists in the store
    store,         \* bag of the documents held by the vector store
    last,          \* the last finished indexer operation and what it did
    searchIn,      \* arguments and backend answer of the running search
    searchOut,     \* what VideoRetriever.search handed back
    mergeIn,       \* argument of merge_video_segments
    mergeOut,      \* what merge_video_segments returned
    genIn,         \* arguments of generate_response
    genOut,        \* the response of generate_response and the calls it made
    segIn,         \* a VideoSegment about to be serialized
    segOut,        \* its dictionary form and the VideoSegment rebuilt from it
    clock,         \* the extractor's wall clock
    mtimes,        \* modification time of every video of VIDEOS_DIR
    captionFiles,  \* the .vtt files of TRANSCRIPTS_DIR
    transcriptStatus, \* the "videos" map of transcript_status.json
    lastRun,       \* the last transcribe_videos run and what it decided
    readiness,     \* the running init_vector_store: position, time, pings
    calls          \* the two concurrent upsert_video calls: position and locals

vars == <<videoFiles, transcripts, transcriber, indexExists, store, last,
          searchIn, searchOut, mergeIn, mergeOut, genIn, genOut,
          segIn, segOut,
          clock, mtimes, captionFiles, transcriptStatus, lastRun,
          readiness, calls>>

indexerVars == <<videoFiles, transcripts, transcriber, indexExists, store, last>>
searchVars  == <<searchIn, searchOut>>
mergeVars   == <<mergeIn, mergeOut>>
genVars     == <<genIn, genOut>>
rtVars      == <<segIn, segOut>>
exVars      == <<clock, mtimes, captionFiles, transcriptStatus, lastRun>>
rdVars      == <<readiness>>
raceVars    == <<calls>>

Idle == [op |-> "idle"]

(***************************************************************************)
(* Generic helpers                                                         *)
(***************************************************************************)
Max(a, b) == IF a >= b THEN a ELSE b

Range(s) == {s[i] : i \in 1..Len(s)}

SeqsUpTo(S, n) == UNION {[1..m -> S] : m \in 0..n}

IsPrefix(p, s) == Len(p) <= Len(s) /\ SubSeq(s, 1, Len(p)) = p

\* Timestamps as the program meets them: the strings "HH:MM:SS.mmm", "MM:SS"
\* and "<seconds>", a number of seconds that is not a string, or no usable
\* value (None).  Captions are modelled at whole-second resolution.
Hms(h, m, s) == [fmt |-> "hms", h |-> h, m |-> m, s |-> s]
MinSec(m, s) == [fmt |-> "ms", m |-> m, s |-> s]
Seconds(s)   == [fmt |-> "seconds", s |-> s]
Number(s)    == [fmt |-> "number", s |-> s]
NoTime       == [fmt |-> "none"]

RECURSIVE SeqToBag(_)
SeqToBag(s) ==
    IF s = <<>> THEN EmptyBag
    ELSE SetToBag({Head(s)}) (+) SeqToBag(Tail(s))

(***************************************************************************)
(* SEGMENT INDEXER                                                         *)
(***************************************************************************)

\* Bound on the number of documents the store may hold in the model.
MaxDocs == 3

\* Video files that may appear in the videos directory.  A file name is its
\* stem (a sequence of characters) and its extension.
VideoA  == [stem |-> <<"a">>, ext |-> "mp4"]
VideoAB == [stem |-> <<"a", "b">>, ext |-> "mp4"]
Videos  == {VideoA, VideoAB}

\* Caption files as transcribe_video names them: <stem>_<YYYYMMDD_HHMMSS>.vtt
VttA  == [stem |-> <<"a">>, stamp |-> "20240101_000000"]
VttAB == [stem |-> <<"a", "b">>, stamp |-> "20240101_000000"]
TranscriptNames == {VttA, VttAB}

VideoName(v) == v.stem \o <<".", v.ext>>
VttName(t)   == t.stem \o <<"_", t.stamp, ".", "vtt">>

\* Captions a transcript may hold (webvtt gives start/end as HH:MM:SS.mmm).
\* Texts are sequences of characters.
Cue1 == [text |-> <<"r", "e", "d">>, start_time |-> Hms(0, 0, 1), end_time |-> Hms(0, 0, 2)]
Cue2 == [text |-> <<"r", "e", "d">>, start_time |-> Hms(0, 0, 2), end_time |-> Hms(0, 0, 3)]
TranscriptContents == {<<>>, <<Cue1, Cue1>>, <<Cue1, Cue2, Cue1>>}

\* What the transcriber writes when upsert_video asks it for a transcript.
GeneratedContent == <<Cue1, Cue1>>

\* What the environment does to one upsert_video call: the call that raises,
\* if any (the existence query, the transcriber, the caption parser or
\* add_documents).
UpsertEnvs == {"ok", "check_raises", "transcribe_raises", "parse_raises", "add_raises"}

\* Path(video_filename).stem
Stem(v) == v.stem

\* TranscriptProcessor.find_matching_transcript: glob "<stem>*.vtt", newest
\* by mtime.  The result is <<file>>, or <<>> for None.
MatchingTranscripts(dir, v) ==
    {i \in 1..Len(dir) : IsPrefix(Stem(v), VttName(dir[i].name))}

find_matching_transcript(dir, v) ==
    LET m == MatchingTranscripts(dir, v) IN
    IF m = {} THEN <<>>
    ELSE <<dir[CHOOSE i \in m : \A j \in m : j <= i]>>

\* Writing a caption file makes it the most recently modified one.
WriteFile(dir, name, content) ==
    Append(SelectSeq(dir, LAMBDA f : f.name # name),
           [name |-> name, content |-> content])

\* TranscriptProcessor.process_video: segments of the matched transcript
\* and the metadata shared by the documents of the video.
process_video(dir, v) ==
    LET t == find_matching_transcript(dir, v) IN
    [segments |-> t[1].content,
     metadata |-> [video_filename |-> VideoName(v)]]

Document(segment, metadata) ==
    [page_content |-> segment.text,
     metadata |-> [video_filename |-> metadata.video_filename,
                   start_time |-> segment.start_time,
                   end_time |-> segment.end_time]]

\* The loop of upsert_video over result["segments"]: one document per
\* (text, start_time, end_time) key not seen before in this call.
RECURSIVE UniqueDocuments(_, _, _, _)
UniqueDocuments(segments, metadata, seen_segments, documents) ==
    IF segments = <<>> THEN documents
    ELSE LET segment == Head(segments)
             segment_key == <<segment.text, segment.start_time, segment.end_time>>
         IN  IF segment_key \in seen_segments
             THEN UniqueDocuments(Tail(segments), metadata, seen_segments, documents)
             ELSE UniqueDocuments(Tail(segments), metadata,
                                  seen_segments \cup {segment_key},
                                  Append(documents, Document(segment, metadata)))

\* VideoTranscriptionStore.is_video_upserted: FALSE when the index does not
\* exist, FALSE when the query raises, otherwise whether a document of the
\* video is in the store.
HasDocumentOf(docs, v) ==
    \E d \in BagToSet(docs) : d.metadata.video_filename = VideoName(v)

\* is_video_upserted answering True when its query raises.
is_video_upserted_fail_closed(st, v, env) ==
    IF ~st.indexExists THEN FALSE
    ELSE IF env = "check_raises" THEN TRUE
    ELSE HasDocumentOf(st.store, v)

\* is_video_upserted answering True while the index does not exist.
is_video_upserted_missing_index_is_indexed(st, v, env) ==
    IF ~st.indexExists THEN TRUE
    ELSE IF env = "check_raises" THEN FALSE
    ELSE HasDocumentOf(st.store, v)

is_video_upserted(st, v, env) ==
    IF ~st.indexExists THEN FALSE
    ELSE IF env = "check_raises" THEN FALSE
    ELSE HasDocumentOf(st.store, v)

\* add_documents writing every document under a key of its own content, so
\* that a document already in the store is not stored again.
add_documents_by_key(docs, documents) ==
    SetToBag(BagToSet(docs) \cup Range(documents))

\* ElasticsearchStore.add_documents: every document handed in becomes a new
\* entry of the index.
add_documents(docs, documents) == docs (+) SeqToBag(documents)

\* VideoTranscriptionStore.upsert_video on the indexer state
\* st = [videoFiles, transcripts, transcriber, indexExists, store]; the
\* result is the new state with the outcome and the documents added.
\* upsert_video is the check of lines 94-105 followed by upsert_after_check.
Finish(st, outcome, added) == [st EXCEPT !.outcome = outcome, !.added = added]

\* upsert_video from line 107 on, after the existence check answered False.
upsert_after_check(st, v, env) ==
    LET found == find_matching_transcript(st.transcripts, v) IN
    IF found = <<>> /\ ~st.transcriber THEN Finish(st, "no_transcript", 0)
    ELSE IF found = <<>> /\ env = "transcribe_raises" THEN Finish(st, "error", 0)
    ELSE
    LET dir == IF found = <<>>
               THEN WriteFile(st.transcripts,
                              [stem |-> Stem(v), stamp |-> "20240101_000000"],
                              GeneratedContent)
               ELSE st.transcripts
        st1 == [st EXCEPT !.transcripts = dir]
    IN
    IF env = "parse_raises" THEN Finish(st1, "error", 0)
    ELSE
    LET result == process_video(dir, v)
        documents == UniqueDocuments(result.segments, result.metadata, {}, <<>>)
    IN
    IF documents = <<>> THEN Finish(st1, "no_segments", 0)
    ELSE IF env = "add_raises" THEN Finish(st1, "error", 0)
    ELSE Finish([st1 EXCEPT !.store = add_documents(st.store, documents),
                            !.indexExists = TRUE],
                "upserted", Len(documents))

upsert_video(st0, v, env) ==
    LET st == [st0 EXCEPT !.outcome = "running", !.added = 0] IN
    IF v \notin st.videoFiles THEN Finish(st, "not_found", 0)
    ELSE IF is_video_upserted(st, v, env) THEN Finish(st, "skipped", 0)
    ELSE upsert_after_check(st, v, env)

\* upsert_all_videos leaving the loop at the first video whose upsert ended
\* in the exception handler.
RECURSIVE upsert_all_abort_on_error(_, _, _)
upsert_all_abort_on_error(st, order, envs) ==
    IF order = <<>> THEN st
    ELSE LET v == Head(order)
             next == upsert_video(st, v, envs[v])
             done == [next EXCEPT !.added = st.added + next.added,
                                  !.attempts = Append(st.attempts,
                                      [video |-> v, outcome |-> next.outcome])]
         IN  IF next.outcome = "error" THEN done
             ELSE upsert_all_abort_on_error(done, Tail(order), envs)

\* VideoTranscriptionStore.upsert_all_videos: upsert_video for each *.mp4
\* file, in the order the directory listing gives them.  upsert_video never
\* raises (its body is one try/except Exception), so the loop goes on after
\* every outcome; attempts lists the calls made and how each ended.
RECURSIVE upsert_all(_, _, _)
upsert_all(st, order, envs) ==
    IF order = <<>> THEN st
    ELSE LET v == Head(order)
             next == upsert_video(st, v, envs[v])
         IN  upsert_all([next EXCEPT !.added = st.added + next.added,
                                     !.attempts = Append(st.attempts,
                                         [video |-> v, outcome |-> next.outcome])],
                        Tail(order), envs)

Mp4Files(files) == {v \in files : v.ext = "mp4"}

Orders(S) == {o \in [1..Cardinality(S) -> S] : Range(o) = S}

IndexerState ==
    [videoFiles |-> videoFiles, transcripts |-> transcripts,
     transcriber |-> transcriber, indexExists |-> indexExists,
     store |-> store, outcome |-> "running", added |-> 0, attempts |-> <<>>]

Commit(st) ==
    /\ BagCardinality(st.store) <= MaxDocs
    /\ transcripts' = st.transcripts
    /\ indexExists' = st.indexExists
    /\ store' = st.store
    /\ UNCHANGED <<videoFiles, transcriber>>

\* The previous operation was a completed upsert_video of v that did not end
\* in the exception handler, and no file changed since.
Repeats(v) ==
    /\ last.op = "upsert_video"
    /\ last.video = v
    /\ last.outcome # "error"

UpsertVideo(v) ==
    \E env \in UpsertEnvs :
        LET st == upsert_video(IndexerState, v, env) IN
        /\ Commit(st)
        /\ last' = [op |-> "upsert_video", video |-> v, outcome |-> st.outcome,
                    added |-> st.added, repeat |-> Repeats(v), env |-> env]
        /\ UNCHANGED <<searchVars, mergeVars, genVars, rtVars, exVars, rdVars, raceVars>>

UpsertAllVideos ==
    \E order \in Orders(Mp4Files(videoFiles)) :
    \E envs \in [Mp4Files(videoFiles) -> UpsertEnvs] :
        LET st == upsert_all(IndexerState, order, envs) IN
        /\ Commit(st)
        /\ last' = [op |-> "upsert_all_videos", added |-> st.added,
                    order |-> order, attempts |-> st.attempts]
        /\ UNCHANGED <<searchVars, mergeVars, genVars, rtVars, exVars, rdVars, raceVars>>

\* VideoTranscriptionStore.init_transcriber
InitTranscriber ==
    /\ ~transcriber
    /\ transcriber' = TRUE
    /\ last' = [op |-> "init_transcriber"]
    /\ UNCHANGED <<videoFiles, transcripts, indexExists, store>>
    /\ UNCHANGED <<searchVars, mergeVars, genVars, rtVars, exVars, rdVars, raceVars>>

\* A video file is placed in the videos directory.
PutVideo(v) ==
    /\ v \notin videoFiles
    /\ videoFiles' = videoFiles \cup {v}
    /\ last' = [op |-> "file_change"]
    /\ UNCHANGED <<transcripts, transcriber, indexExists, store>>
    /\ UNCHANGED <<searchVars, mergeVars, genVars, rtVars, exVars, rdVars, raceVars>>

\* The transcription step writes (or rewrites) a caption file.
WriteTranscript(name, content) ==
    /\ transcripts' = WriteFile(transcripts, name, content)
    /\ transcripts' # transcripts
    /\ last' = [op |-> "file_change"]
    /\ UNCHANGED <<videoFiles, transcriber, indexExists, store>>
    /\ UNCHANGED <<searchVars, mergeVars, genVars, rtVars, exVars, rdVars, raceVars>>

IndexerInit ==
    /\ videoFiles = {}
    /\ transcripts = <<>>
    /\ transcriber = FALSE
    /\ indexExists = FALSE
    /\ store = EmptyBag
    /\ last = [op |-> "init"]

SearchIdle == searchIn = Idle /\ searchOut = Idle
MergeIdle  == mergeIn = Idle /\ mergeOut = Idle
GenIdle    == genIn = Idle /\ genOut = Idle
RtIdle     == segIn = Idle /\ segOut = Idle
ReadyIdle  == readiness = Idle
CallsIdle  == calls = Idle

\* The extractor before its first run: the videos of VIDEOS_DIR were written
\* at time 0, no caption file and no transcript_status.json exist
\* (get_transcript_status then gives an empty "videos" map).
ExInit ==
    /\ clock = 1
    /\ mtimes = [v \in Videos |-> 0]
    /\ captionFiles = {}
    /\ transcriptStatus = [v \in Videos |-> <<>>]
    /\ lastRun = Idle

Init == IndexerInit /\ SearchIdle /\ MergeIdle /\ GenIdle /\ RtIdle /\ ExInit /\ ReadyIdle /\ CallsIdle

Next ==
    \/ \E v \in Videos : UpsertVideo(v)
    \/ UpsertAllVideos
    \/ InitTranscriber
    \/ \E v \in Videos : PutVideo(v)
    \/ \E name \in TranscriptNames, content \in TranscriptContents :
           WriteTranscript(name, content)

Spec == Init /\ [][Next]_vars

(***************************************************************************)
(* Claims about the indexer (specification Spec)                           *)
(***************************************************************************)

\* C1: Indexing is idempotent: an upsert_video call that directly follows a
\* completed upsert_video call for the same video, with no file change in
\* between, adds no document to the store (the document count stays what
\* the first call left).
C1_IdempotentUpsert ==
    (last.op = "upsert_video" /\ last.repeat) => last.added = 0

\* C2: Dedup invariant: after any sequence of upsert_video and
\* upsert_all_videos calls the store never holds two documents of the same
\* video with the same (text, start_time, end_time).
C2_NoDuplicateDocuments ==
    \A d \in BagToSet(store) : CopiesIn(d, store) <= 1

OwnTranscripts(dir, v) == {i \in 1..Len(dir) : dir[i].name.stem = Stem(v)}

\* C21: Caption-file matching: find_matching_transcript returns a caption
\* file whose base name, ignoring the _YYYYMMDD_HHMMSS timestamp suffix,
\* equals the video's base name, and among such files the most recently
\* modified one; a caption file belonging to a different video (whose name
\* merely starts with this video's base name) is never selected.
C21_CaptionMatching ==
    \A v \in Videos :
        LET found == find_matching_transcript(transcripts, v)
            own == OwnTranscripts(transcripts, v)
        IN  /\ found # <<>> => found[1].name.stem = Stem(v)
            /\ own # {} =>
                   /\ found # <<>>
                   /\ found[1] = transcripts[CHOOSE i \in own : \A j \in own : j <= i]

\* C27: Fail-open existence check: when the store query inside
\* is_video_upserted raises, the check reports the video as not upserted,
\* and upsert_video then goes on to add the video's documents even if the
\* store already holds them.
C27_FailOpenCheck ==
    (last.op = "upsert_video" /\ last.env = "check_raises") =>
        /\ last.outcome # "skipped"
        /\ (last.repeat /\ last.outcome = "upserted") => last.added > 0

\* An upsert_video call that directly repeated a completed call for the
\* same video, whose existence query raised, and that added the documents
\* the store already held.
C27_Witness ==
    /\ last.op = "upsert_video"
    /\ last.env = "check_raises"
    /\ last.repeat
    /\ last.outcome = "upserted"
    /\ last.added > 0
    /\ \E d \in BagToSet(store) : CopiesIn(d, store) >= 2

MaxK == 2

\* Relevance scores, in tenths (9 stands for 0.9).
Scores == {5, 9}
Thresholds == {0, 7}

\* Documents the store may hand back: documents written by upsert_video, a
\* document with empty text, and a record without its start_time.
DocEmptyText == [page_content |-> <<>>,
                 metadata |-> [video_filename |-> VideoName(VideoA),
                               start_time |-> Hms(0, 0, 3),
                               end_time |-> Hms(0, 0, 4)]]
DocMalformed == [page_content |-> <<"r", "e", "d">>,
                 metadata |-> [video_filename |-> VideoName(VideoA),
                               end_time |-> Hms(0, 0, 2)]]
SearchDocs ==
    {Document(Cue1, [video_filename |-> VideoName(VideoA)]),
     Document(Cue2, [video_filename |-> VideoName(VideoA)]),
     Document(Cue1, [video_filename |-> VideoName(VideoAB)]),
     DocEmptyText, DocMalformed}

Candidates == [doc : SearchDocs, score : Scores]

\* The store answers similarity_search_with_score(query, k = 2k) with at
\* most 2k candidates, best score first.
CandidateLists(k) ==
    {r \in SeqsUpTo(Candidates, 2 * k) :
        \A i \in 1..(Len(r) - 1) : r[i].score >= r[i + 1].score}

\* A call of VideoRetriever.search: k, the score_threshold keyword if the
\* caller passes one (<<th>>, or <<>>), and what the store does when it is
\* queried: it raises, or it answers with a candidate list.
SearchCall(k, th, b, r) ==
    [op |-> "search", k |-> k, score_threshold |-> th,
     backendRaises |-> b, results |-> r]

SearchCalls ==
    UNION {{SearchCall(k, <<>>, FALSE, r) : r \in CandidateLists(k)}
           \cup {SearchCall(k, <<>>, TRUE, <<>>)}
           \cup {SearchCall(k, <<th>>, FALSE, <<>>) : th \in Thresholds} :
           k \in 0..MaxK}

RequiredFields == {"start_time", "end_time", "video_filename"}

\* search_loop without the seen_segments test: every candidate is kept.
RECURSIVE search_loop_no_dedup(_, _, _, _)
search_loop_no_dedup(results, k, seen_segments, formatted_results) ==
    IF results = <<>> THEN [raised |-> FALSE, value |-> formatted_results]
    ELSE
    LET doc == Head(results).doc
        score == Head(results).score
    IN
    IF ~({"start_time", "end_time", "video_filename"} \subseteq DOMAIN doc.metadata)
    THEN [raised |-> TRUE, value |-> <<>>]
    ELSE
    LET result == [text |-> doc.page_content,
                   start_time |-> doc.metadata.start_time,
                   end_time |-> doc.metadata.end_time,
                   video_filename |-> doc.metadata.video_filename,
                   relevance_score |-> score]
    IN
    IF Len(formatted_results) + 1 >= k
    THEN [raised |-> FALSE, value |-> Append(formatted_results, result)]
    ELSE search_loop_no_dedup(Tail(results), k, seen_segments,
                              Append(formatted_results, result))

\* search_loop putting every new result in front of the earlier ones.
RECURSIVE search_loop_prepend(_, _, _, _)
search_loop_prepend(results, k, seen_segments, formatted_results) ==
    IF results = <<>> THEN [raised |-> FALSE, value |-> formatted_results]
    ELSE
    LET doc == Head(results).doc
        score == Head(results).score
    IN
    IF ~({"start_time", "end_time", "video_filename"} \subseteq DOMAIN doc.metadata)
    THEN [raised |-> TRUE, value |-> <<>>]
    ELSE
    LET segment_key == <<doc.page_content, doc.metadata.start_time,
                         doc.metadata.end_time, doc.metadata.video_filename>>
        result == [text |-> doc.page_content,
                   start_time |-> doc.metadata.start_time,
                   end_time |-> doc.metadata.end_time,
                   video_filename |-> doc.metadata.video_filename,
                   relevance_score |-> score]
    IN
    IF segment_key \in seen_segments
    THEN search_loop_prepend(Tail(results), k, seen_segments, formatted_results)
    ELSE IF Len(formatted_results) + 1 >= k
         THEN [raised |-> FALSE, value |-> <<result>> \o formatted_results]
         ELSE search_loop_prepend(Tail(results), k, seen_segments \cup {segment_key},
                                  <<result>> \o formatted_results)

\* The loop of search_transcriptions (vector_store.py 196-233): walk the
\* candidates in order, keep the first occurrence of every
\* (text, start_time, end_time, video_filename) key, stop at k results.  A
\* candidate without a required metadata field raises KeyError.
RECURSIVE search_loop(_, _, _, _)
search_loop(results, k, seen_segments, formatted_results) ==
    IF results = <<>> THEN [raised |-> FALSE, value |-> formatted_results]
    ELSE
    LET doc == Head(results).doc
        score == Head(results).score
    IN
    IF ~(RequiredFields \subseteq DOMAIN doc.metadata)
    THEN [raised |-> TRUE, value |-> <<>>]
    ELSE
    LET segment_key == <<doc.page_content, doc.metadata.start_time,
                         doc.metadata.end_time, doc.metadata.video_filename>>
        result == [text |-> doc.page_content,
                   start_time |-> doc.metadata.start_time,
                   end_time |-> doc.metadata.end_time,
                   video_filename |-> doc.metadata.video_filename,
                   relevance_score |-> score]
    IN
    IF segment_key \in seen_segments
    THEN search_loop(Tail(results), k, seen_segments, formatted_results)
    ELSE IF Len(formatted_results) + 1 >= k
         THEN [raised |-> FALSE, value |-> Append(formatted_results, result)]
         ELSE search_loop(Tail(results), k, seen_segments \cup {segment_key},
                          Append(formatted_results, result))

\* VideoTranscriptionStore.search_transcriptions: the store is asked for 2k
\* candidates; an unreachable store raises.
search_transcriptions(call) ==
    IF call.backendRaises THEN [raised |-> TRUE, value |-> <<>>]
    ELSE search_loop(call.results, call.k, {}, <<>>)

\* VideoRetriever.format_timestamp: a number of seconds becomes
\* HH:MM:SS.mmm; for anything float() rejects the value is handed back as
\* it is.
format_timestamp(time_str) ==
    IF time_str.fmt \in {"seconds", "number"}
    THEN Hms(time_str.s \div 3600, (time_str.s \div 60) % 60, time_str.s % 60)
    ELSE time_str

\* VideoRetriever.format_result
format_result(result) ==
    [text |-> result.text,
     video |-> result.video_filename,
     timestamp |-> [start |-> format_timestamp(result.start_time),
                    end |-> format_timestamp(result.end_time)],
     score |-> result.relevance_score]

\* The loop of VideoRetriever.search over the raw results: results with an
\* empty text are left out.
RECURSIVE format_all(_)
format_all(results) ==
    IF results = <<>> THEN <<>>
    ELSE LET result == format_result(Head(results)) IN
         IF result.text # <<>>
         THEN <<result>> \o format_all(Tail(results))
         ELSE format_all(Tail(results))

\* VideoRetriever.search without its try/except: an exception of the store
\* query reaches the caller.
retriever_search_propagates(call) ==
    IF call.score_threshold # <<>>
    THEN [op |-> "raised", error |-> "TypeError", results |-> <<>>]
    ELSE LET raw == search_transcriptions(call) IN
         IF raw.raised
         THEN [op |-> "raised", error |-> "Exception", results |-> <<>>]
         ELSE [op |-> "returned", error |-> "", results |-> format_all(raw.value)]

\* VideoRetriever.search(query, k): the signature has no score_threshold, so
\* a call that passes one fails with TypeError before the body runs; inside
\* the body every exception is turned into an empty list.
retriever_search(call) ==
    IF call.score_threshold # <<>>
    THEN [op |-> "raised", error |-> "TypeError", results |-> <<>>]
    ELSE LET raw == search_transcriptions(call) IN
         IF raw.raised
         THEN [op |-> "returned", error |-> "", results |-> <<>>]
         ELSE [op |-> "returned", error |-> "", results |-> format_all(raw.value)]

DoSearch ==
    /\ searchIn.op = "search"
    /\ searchOut = Idle
    /\ searchOut' = retriever_search(searchIn)
    /\ UNCHANGED <<searchIn, indexerVars, mergeVars, genVars, rtVars, exVars, rdVars, raceVars>>

SearchInit ==
    /\ IndexerInit /\ MergeIdle /\ GenIdle /\ RtIdle /\ ExInit /\ ReadyIdle /\ CallsIdle
    /\ searchIn \in SearchCalls
    /\ searchOut = Idle

SearchNext == DoSearch

SpecSearch == SearchInit /\ [][SearchNext]_vars

(***************************************************************************)
(* Claims about the search (specification SpecSearch)                      *)
(***************************************************************************)

SegmentKey(seg) == <<seg.text, seg.timestamp.start, seg.timestamp.end, seg.video>>

Returned == searchOut.op = "returned"

\* C3: Search dedup: for k >= 1 and any candidate list of the store, the
\* segments search returns hold no two entries with the same
\* (text, start_time, end_time, video_filename) key, and at most k entries.
C3_SearchDedup ==
    (Returned /\ searchIn.k >= 1) =>
        /\ \A i, j \in 1..Len(searchOut.results) :
               i # j => SegmentKey(searchOut.results[i]) # SegmentKey(searchOut.results[j])
        /\ Len(searchOut.results) <= searchIn.k

\* A search whose two best candidates are the same document, which skipped
\* the second and filled its k = 2 slots from more than k candidates.
C3_Witness ==
    /\ Returned
    /\ searchIn.k = 2
    /\ Len(searchIn.results) > 2
    /\ searchIn.results[1].doc = searchIn.results[2].doc
    /\ Len(searchOut.results) = 2

C5_SearchOrdered ==
    Returned =>
        \A i \in 1..(Len(searchOut.results) - 1) :
            searchOut.results[i].score >= searchOut.results[i + 1].score

\* A search that returned two segments of different scores.
C5_Witness ==
    /\ Returned
    /\ Len(searchOut.results) = 2
    /\ searchOut.results[1].score > searchOut.results[2].score

\* The candidates that have every required metadata field, in store order.
WellFormed(results) ==
    SelectSeq(results, LAMBDA c : RequiredFields \subseteq DOMAIN c.doc.metadata)

\* C18: Malformed search records are dropped individually: when some
\* candidate returned by the store lacks a required field (start_time,
\* end_time or video_filename), search excludes only that record and still
\* returns the well-formed candidates, up to k of them; that is, it returns
\* what it returns for the candidate list without the malformed records.
C18_MalformedDropped ==
    (searchOut # Idle /\ searchIn.score_threshold = <<>>
     /\ ~searchIn.backendRaises /\ searchIn.k >= 1) =>
        /\ Returned
        /\ searchOut.results =
               format_all(search_loop(WellFormed(searchIn.results),
                                      searchIn.k, {}, <<>>).value)

\* C19: Backend unavailable at the search boundary: when the vector-store
\* query raises any exception, VideoRetriever.search returns an empty
\* sequence and does not raise.
C19_BackendUnavailable ==
    (searchOut # Idle /\ searchIn.backendRaises) =>
        /\ Returned
        /\ searchOut.results = <<>>

\* A search with k = 2 whose store query raised has returned.
C19_Witness ==
    /\ searchOut # Idle
    /\ searchIn.backendRaises
    /\ searchIn.k = 2
    /\ Returned

(***************************************************************************)
(* SEGMENT CONSOLIDATOR                                                    *)
(***************************************************************************)

\* Bound on the number of segments handed to merge_video_segments.
MaxInput == 5

\* Seconds added to every parsed end time (streamlit_app.py line 167).
EndPadding == 10
\* The merge buffer in seconds (streamlit_app.py line 189).
MergeBuffer == 5
\* Number of windows kept for display (streamlit_app.py line 217).
MAX_VIDEOS == 4

PathV1 == "data/videos/v1.mp4"
PathV2 == "data/videos/v2.mp4"

\* Segments ("videos") that may be handed to merge_video_segments.  Texts
\* are sequences of characters.  The last one has no end_time and no score.
MergePool ==
    {[path |-> PathV1, start_time |-> Seconds(0), end_time |-> Seconds(10),
      text |-> <<"a">>, score |-> 5],
     [path |-> PathV1, start_time |-> Seconds(8), end_time |-> Seconds(15),
      text |-> <<"b">>, score |-> 9],
     [path |-> PathV1, start_time |-> Seconds(30), end_time |-> Seconds(40),
      text |-> <<"a", " ", "b">>, score |-> 2],
     [path |-> PathV1, start_time |-> Hms(0, 1, 0), end_time |-> Hms(0, 1, 10),
      text |-> <<"c">>, score |-> 7],
     [path |-> PathV2, start_time |-> Seconds(0), end_time |-> NoTime,
      text |-> <<"a">>, score |-> 9],
     [path |-> PathV2, start_time |-> MinSec(0, 30), end_time |-> MinSec(0, 40),
      text |-> <<"b">>, score |-> 5],
     [path |-> PathV2, start_time |-> Hms(0, 1, 0),
      text |-> <<" ", "c">>]}

\* parse_timestamp (streamlit_app.py 139-152): seconds of "H:MM:SS", "MM:SS"
\* or "<seconds>"; 0 for anything that makes split or float raise.
parse_timestamp(timestamp) ==
    CASE timestamp.fmt = "hms" -> timestamp.h * 3600 + timestamp.m * 60 + timestamp.s
      [] timestamp.fmt = "ms" -> timestamp.m * 60 + timestamp.s
      [] timestamp.fmt = "seconds" -> timestamp.s
      [] OTHER -> 0

\* str.strip() on a sequence of characters
RECURSIVE StripLeft(_)
StripLeft(t) == IF t # <<>> /\ Head(t) = " " THEN StripLeft(Tail(t)) ELSE t

RECURSIVE StripRight(_)
StripRight(t) ==
    IF t # <<>> /\ t[Len(t)] = " " THEN StripRight(SubSeq(t, 1, Len(t) - 1)) ELSE t

Strip(t) == StripRight(StripLeft(t))

\* Python's "sub in text" on sequences of characters
Contains(text, sub) ==
    \E i \in 0..(Len(text) - Len(sub)) : SubSeq(text, i + 1, i + Len(sub)) = sub

\* The grouping loop (streamlit_app.py 165-175): what is stored for a video.
GroupEntry(video) ==
    [start |-> parse_timestamp(video.start_time),
     end |-> parse_timestamp(IF "end_time" \in DOMAIN video
                             THEN video.end_time ELSE video.start_time)
             + EndPadding,
     text |-> video.text,
     score |-> IF "score" \in DOMAIN video THEN video.score ELSE 0]

\* Keys of video_groups in insertion order.
RECURSIVE GroupPaths(_, _)
GroupPaths(videos, paths) ==
    IF videos = <<>> THEN paths
    ELSE IF \E i \in 1..Len(paths) : paths[i] = Head(videos).path
         THEN GroupPaths(Tail(videos), paths)
         ELSE GroupPaths(Tail(videos), Append(paths, Head(videos).path))

RECURSIVE GroupOf(_, _)
GroupOf(videos, path) ==
    IF videos = <<>> THEN <<>>
    ELSE IF Head(videos).path = path
         THEN <<GroupEntry(Head(videos))>> \o GroupOf(Tail(videos), path)
         ELSE GroupOf(Tail(videos), path)

\* InsertByStart for a sort by start with reverse = True: descending.
RECURSIVE InsertByStartDescending(_, _)
InsertByStartDescending(x, sorted) ==
    IF sorted = <<>> THEN <<x>>
    ELSE IF Head(sorted).start >= x.start
         THEN <<Head(sorted)>> \o InsertByStartDescending(x, Tail(sorted))
         ELSE <<x>> \o sorted

\* segments.sort(key = start): stable, ascending.
RECURSIVE InsertByStart(_, _)
InsertByStart(x, sorted) ==
    IF sorted = <<>> THEN <<x>>
    ELSE IF Head(sorted).start <= x.start
         THEN <<Head(sorted)>> \o InsertByStart(x, Tail(sorted))
         ELSE <<x>> \o sorted

RECURSIVE SortByStart(_, _)
SortByStart(segments, sorted) ==
    IF segments = <<>> THEN sorted
    ELSE SortByStart(Tail(segments), InsertByStart(Head(segments), sorted))

\* MergeWalk giving a window the score of the last segment merged into it.
RECURSIVE MergeWalkLastScore(_, _, _)
MergeWalkLastScore(segments, current, merged) ==
    IF segments = <<>> THEN Append(merged, current)
    ELSE
    LET segment == Head(segments) IN
    IF segment.start <= current.end + MergeBuffer
    THEN MergeWalkLastScore(Tail(segments),
                   [current EXCEPT
                       !.end = Max(current.end, segment.end),
                       !.text = IF ~Contains(current.text, Strip(segment.text))
                                THEN current.text \o <<" ">> \o segment.text
                                ELSE current.text,
                       !.score = segment.score],
                   merged)
    ELSE MergeWalkLastScore(Tail(segments), segment, Append(merged, current))

\* The merge walk over one video's sorted segments (streamlit_app.py 184-201).
RECURSIVE MergeWalk(_, _, _)
MergeWalk(segments, current, merged) ==
    IF segments = <<>> THEN Append(merged, current)
    ELSE
    LET segment == Head(segments) IN
    IF segment.start <= current.end + MergeBuffer
    THEN MergeWalk(Tail(segments),
                   [current EXCEPT
                       !.end = Max(current.end, segment.end),
                       !.text = IF ~Contains(current.text, Strip(segment.text))
                                THEN current.text \o <<" ">> \o segment.text
                                ELSE current.text,
                       !.score = Max(current.score, segment.score)],
                   merged)
    ELSE MergeWalk(Tail(segments), segment, Append(merged, current))

\* The windows of one video, as appended to merged_videos (lines 203-211).
WindowsOf(videos, path) ==
    LET segments == SortByStart(GroupOf(videos, path), <<>>)
        merged == MergeWalk(Tail(segments), Head(segments), <<>>)
    IN  [i \in 1..Len(merged) |->
            [path |-> path, start_time |-> merged[i].start,
             end_time |-> merged[i].end, text |-> Strip(merged[i].text),
             score |-> merged[i].score]]

RECURSIVE MergedVideos(_, _)
MergedVideos(videos, paths) ==
    IF paths = <<>> THEN <<>>
    ELSE WindowsOf(videos, Head(paths)) \o MergedVideos(videos, Tail(paths))

\* InsertByScore for a sort without reverse = True: ascending by score.
RECURSIVE InsertByScoreAscending(_, _)
InsertByScoreAscending(x, sorted) ==
    IF sorted = <<>> THEN <<x>>
    ELSE IF Head(sorted).score <= x.score
         THEN <<Head(sorted)>> \o InsertByScoreAscending(x, Tail(sorted))
         ELSE <<x>> \o sorted

\* merged_videos.sort(key = score, reverse = True): stable, descending.
RECURSIVE InsertByScore(_, _)
InsertByScore(x, sorted) ==
    IF sorted = <<>> THEN <<x>>
    ELSE IF Head(sorted).score >= x.score
         THEN <<Head(sorted)>> \o InsertByScore(x, Tail(sorted))
         ELSE <<x>> \o sorted

RECURSIVE SortByScore(_, _)
SortByScore(windows, sorted) ==
    IF windows = <<>> THEN sorted
    ELSE SortByScore(Tail(windows), InsertByScore(Head(windows), sorted))

\* merge_video_segments (streamlit_app.py 154-218)
merge_video_segments(videos) ==
    IF videos = <<>> THEN <<>>
    ELSE LET merged_videos ==
                 SortByScore(MergedVideos(videos, GroupPaths(videos, <<>>)), <<>>)
         IN  SubSeq(merged_videos, 1,
                    IF Len(merged_videos) < MAX_VIDEOS
                    THEN Len(merged_videos) ELSE MAX_VIDEOS)

DoMerge ==
    /\ mergeIn.op = "merge"
    /\ mergeOut = Idle
    /\ mergeOut' = [op |-> "returned",
                    windows |-> merge_video_segments(mergeIn.videos)]
    /\ UNCHANGED <<mergeIn, indexerVars, searchVars, genVars, rtVars, exVars, rdVars, raceVars>>

MergeInit ==
    /\ IndexerInit /\ SearchIdle /\ GenIdle /\ RtIdle /\ ExInit /\ ReadyIdle /\ CallsIdle
    /\ mergeIn \in {[op |-> "merge", videos |-> v] : v \in SeqsUpTo(MergePool, MaxInput)}
    /\ mergeOut = Idle

MergeNext == DoMerge

SpecMerge == MergeInit /\ [][MergeNext]_vars

(***************************************************************************)
(* Claims about the consolidator (specification SpecMerge)                 *)
(***************************************************************************)

Merged == mergeOut.op = "returned"

\* The windows of every video before the sort by score and the cut.
AllWindows == MergedVideos(mergeIn.videos, GroupPaths(mergeIn.videos, <<>>))

\* The end of a segment as handed in: its end_time, or start + 10 seconds
\* when it has none.
GivenStart(video) == parse_timestamp(video.start_time)
GivenEnd(video) ==
    IF "end_time" \in DOMAIN video
    THEN parse_timestamp(video.end_time)
    ELSE parse_timestamp(video.start_time) + 10

Spans(windows) == {<<windows[i].start_time, windows[i].end_time>> : i \in 1..Len(windows)}

MergeExample ==
    {v \in MergePool : v.path = PathV1 /\
        <<GivenStart(v), GivenEnd(v)>> \in {<<0, 10>>, <<8, 15>>, <<30, 40>>}}

\* C6: Consolidator merge correctness: for the three segments (0,10),
\* (8,15), (30,40) of one video and the 5-second buffer the output is
\* exactly the two windows (0,15) and (30,40).
C6_MergeExample ==
    (Merged /\ Len(mergeIn.videos) = 3 /\ Range(mergeIn.videos) = MergeExample) =>
        /\ Len(mergeOut.windows) = 2
        /\ Spans(mergeOut.windows) = {<<0, 15>>, <<30, 40>>}

\* C7: No merge across a gap larger than the buffer: a segment that starts
\* more than 5 seconds after the end of every segment of its video that
\* starts before it is not merged into an earlier window (it opens a window
\* of its own).
C7_NoMergeAcrossGap ==
    Merged =>
        \A i, j \in 1..Len(mergeIn.videos) :
            LET x == mergeIn.videos[i]
                y == mergeIn.videos[j]
            IN  ( /\ x.path = y.path
                  /\ GivenStart(x) < GivenStart(y)
                  /\ \A n \in 1..Len(mergeIn.videos) :
                        LET z == mergeIn.videos[n] IN
                        (z.path = y.path /\ GivenStart(z) < GivenStart(y))
                            => GivenStart(y) > GivenEnd(z) + 5 )
                => \E n \in 1..Len(AllWindows) :
                       /\ AllWindows[n].path = y.path
                       /\ AllWindows[n].start_time = GivenStart(y)

\* C8: Consolidator cap: merge_video_segments returns at most 4 windows,
\* sorted by descending score, and every window it leaves out has a score
\* <= the score of every window it returns.
C8_ConsolidatorCap ==
    Merged =>
        /\ Len(mergeOut.windows) <= 4
        /\ \A i \in 1..(Len(mergeOut.windows) - 1) :
               mergeOut.windows[i].score >= mergeOut.windows[i + 1].score
        /\ \A w \in Range(AllWindows) \ Range(mergeOut.windows) :
               \A r \in Range(mergeOut.windows) : w.score <= r.score

\* A merge over two videos that built more than 4 windows of different
\* scores and left one out.
C8_Witness ==
    /\ Merged
    /\ Len(AllWindows) > 4
    /\ Len(mergeOut.windows) = 4
    /\ mergeOut.windows[1].score > mergeOut.windows[4].score
    /\ \E w \in Range(AllWindows) \ Range(mergeOut.windows) :
           w.score < mergeOut.windows[4].score

\* The sorted segments of one video as the merge walk receives them, the
\* accumulators after the walk has taken the first k of them, and the number
\* of the window the k-th went into.
SortedGroup(path) == SortByStart(GroupOf(mergeIn.videos, path), <<>>)
WalkTo(path, k) ==
    MergeWalk(SubSeq(SortedGroup(path), 2, k), Head(SortedGroup(path)), <<>>)
WindowOf(path, k) == Len(WalkTo(path, k))
Current(path, k) == WalkTo(path, k)[WindowOf(path, k)]
MergedInto(path, n) == {k \in 1..Len(SortedGroup(path)) : WindowOf(path, k) = n}
InputPaths == Range(GroupPaths(mergeIn.videos, <<>>))

C30_WindowsSeparated ==
    Merged =>
        \A path \in InputPaths :
            LET windows == WindowsOf(mergeIn.videos, path) IN
            /\ \A n \in 1..(Len(windows) - 1) :
                   /\ windows[n].start_time < windows[n + 1].start_time
                   /\ windows[n + 1].start_time > windows[n].end_time + 5
            /\ \A i \in 1..Len(mergeIn.videos) :
                   LET video == mergeIn.videos[i] IN
                   video.path = path =>
                       Cardinality({n \in 1..Len(windows) :
                           /\ windows[n].start_time <= GivenStart(video)
                           /\ GivenEnd(video) <= windows[n].end_time}) = 1

\* A video with two windows, one of them covering two different segments.
C30_Witness ==
    /\ Merged
    /\ \E path \in InputPaths :
          LET windows == WindowsOf(mergeIn.videos, path) IN
          /\ Len(windows) = 2
          /\ \E x, y \in Range(mergeIn.videos) :
                /\ x.path = path /\ y.path = path
                /\ GivenStart(x) # GivenStart(y)
                /\ \E n \in 1..Len(windows) :
                      /\ windows[n].start_time <= GivenStart(x)
                      /\ GivenEnd(x) <= windows[n].end_time
                      /\ windows[n].start_time <= GivenStart(y)
                      /\ GivenEnd(y) <= windows[n].end_time

(***************************************************************************)
(* ANSWER SYNTHESIZER                                                      *)
(***************************************************************************)

\* VideoResponseGenerator.MIN_QUERY_LENGTH and MAX_QUERY_LENGTH
MIN_QUERY_LENGTH == 3
MAX_QUERY_LENGTH == 500
\* VideoResponseGenerator.DEFAULT_SEARCH_LIMIT (config.retrieval["max_sources"])
DEFAULT_SEARCH_LIMIT == 5

\* A query is a string of `core` characters (first and last not blank)
\* between `lead` and `trail` blanks, or a value that is not a string.
Queries ==
    [type : {"str"}, lead : 0..1, core : {0, 2, 3, 500, 501}, trail : 0..1]
    \cup {[type |-> "none"]}

\* k and score_threshold as Python values; thresholds are in tenths.
KValues ==
    [type : {"int"}, value : -1..2] \cup {[type |-> "float", value |-> 2],
                                          [type |-> "none"]}
ThresholdValues ==
    [type : {"int", "float"}, value : {-1, 0, 5, 10, 11}] \cup {[type |-> "str"]}

\* What the language model does on its successive calls.
LlmBehaviours ==
    {<<"ok">>, <<"rate limit", "rate limit", "ok">>,
     <<"rate limit", "rate limit", "rate limit">>, <<"error">>}

GenCandidates ==
    {<<>>,
     <<[doc |-> Document(Cue1, [video_filename |-> VideoName(VideoA)]), score |-> 9]>>,
     <<[doc |-> DocEmptyText, score |-> 9]>>}

GenerateCalls ==
    [op : {"generate"}, query : Queries, k : KValues,
     score_threshold : ThresholdValues, max_retries : {0, 3},
     backendRaises : BOOLEAN, results : GenCandidates, llm : LlmBehaviours]

NoError == <<>>
Raise(type, msg) == <<[type |-> type, msg |-> msg]>>

\* len(query) without and with strip()
RawLength(query) == query.lead + query.core + query.trail
StrippedLength(query) == query.core

\* _validate_query judging the length of the unstripped query
validate_query_no_strip(query) ==
    IF query.type # "str" THEN Raise("TypeError", "Query must be a string")
    ELSE IF ~(MIN_QUERY_LENGTH <= RawLength(query)
              /\ RawLength(query) <= MAX_QUERY_LENGTH)
    THEN Raise("ValueError", "Query length must be between 3 and 500 characters")
    ELSE NoError

\* VideoResponseGenerator._validate_query
validate_query(query) ==
    IF query.type # "str" THEN Raise("TypeError", "Query must be a string")
    ELSE IF ~(MIN_QUERY_LENGTH <= StrippedLength(query)
              /\ StrippedLength(query) <= MAX_QUERY_LENGTH)
    THEN Raise("ValueError", "Query length must be between 3 and 500 characters")
    ELSE NoError

\* VideoResponseGenerator._validate_search_params
validate_search_params(k, score_threshold) ==
    IF k.type # "int" \/ k.value < 1
    THEN Raise("ValueError", "k must be a positive integer")
    ELSE IF score_threshold.type \notin {"int", "float"}
    THEN Raise("TypeError", "score_threshold must be a number")
    ELSE IF ~(0 <= score_threshold.value /\ score_threshold.value <= 10)
    THEN Raise("ValueError", "score_threshold must be between 0 and 1")
    ELSE NoError

\* VideoSegment.from_dict
from_dict(data) ==
    [text |-> Strip(data.text), video |-> data.video,
     timestamp |-> [start |-> data.timestamp.start, end |-> data.timestamp.end],
     score |-> data.score]

\* VideoResponseGenerator._process_search_results
process_search_results(results) == [i \in 1..Len(results) |-> from_dict(results[i])]

SearchResponse(answer, sources, error) ==
    [answer |-> answer, sources |-> sources, error |-> error]

\* SearchResponse.has_error: bool(self.error).  An error is None (<<>>) or a
\* text given by the pieces it is put together from; bool() of a text is
\* true when the text is not empty.
has_error(response) ==
    \E i \in 1..Len(response.error) : response.error[i] # ""

\* The (ValueError, TypeError) clause answering with an empty text.
InvalidInput_empty_answer(e) ==
    SearchResponse("", <<>>, <<"Invalid input: ", e.msg>>)

\* The two except clauses of generate_response (generator.py 264-277).
InvalidInput(e) ==
    SearchResponse("I don't have enough information", <<>>,
                   <<"Invalid input: ", e.msg>>)

Failed(e) ==
    IF e.msg = "rate limit"
    THEN SearchResponse("I don't have enough information", <<>>,
                        <<"Rate limit exceeded. Please try again later.">>)
    ELSE SearchResponse("I don't have enough information", <<>>,
                        <<"Error: ", e.msg>>)

\* What an invocation handed back and the calls it made: calls of
\* retriever.search, queries that reached the store, calls of the language
\* model, and time.sleep(retry_delay) waits.
Result(response, searchCalls, storeQueries, llmCalls, sleeps) ==
    [op |-> "returned", response |-> response, searchCalls |-> searchCalls,
     storeQueries |-> storeQueries, llmCalls |-> llmCalls, sleeps |-> sleeps]

\* response.choices[0].message.content of the n-th call of the model
ModelText(n) ==
    CASE n = 1 -> "model text 1"
      [] n = 2 -> "model text 2"
      [] OTHER -> "model text 3"

\* The retry loop (generator.py 239-262) from attempt `attempt` (0-based).
RECURSIVE generate_with_retries(_, _, _)
generate_with_retries(call, segments, attempt) ==
    IF attempt >= call.max_retries
    THEN [op |-> "returned_none", searchCalls |-> 1, storeQueries |-> 1,
          llmCalls |-> attempt, sleeps |-> attempt]
    ELSE
    LET outcome == IF attempt + 1 <= Len(call.llm)
                   THEN call.llm[attempt + 1] ELSE "ok"
        sorted == SortByScore(segments, <<>>)
    IN
    IF outcome = "ok"
    THEN Result(SearchResponse(ModelText(attempt + 1),
                               SubSeq(sorted, 1,
                                      IF Len(sorted) < DEFAULT_SEARCH_LIMIT
                                      THEN Len(sorted) ELSE DEFAULT_SEARCH_LIMIT),
                               <<>>),
                1, 1, attempt + 1, attempt)
    ELSE IF outcome = "rate limit" /\ attempt < call.max_retries - 1
    THEN generate_with_retries(call, segments, attempt + 1)
    ELSE Result(Failed([type |-> "Exception", msg |-> outcome]), 1, 1,
                attempt + 1, attempt)

\* generate_response without its except (ValueError, TypeError) clause:
\* these exceptions fall to the except Exception clause only when they are
\* not raised, so a ValueError or TypeError leaves the function.
generate_response_unguarded(call) ==
    LET e1 == validate_query(call.query) IN
    IF e1 # NoError THEN [op |-> "raised", error |-> e1[1].type]
    ELSE
    LET e2 == validate_search_params(call.k, call.score_threshold) IN
    IF e2 # NoError THEN [op |-> "raised", error |-> e2[1].type]
    ELSE
    LET raw_results ==
            retriever_search(SearchCall(call.k.value,
                                        <<call.score_threshold.value>>,
                                        call.backendRaises, call.results))
    IN
    IF raw_results.op = "raised"
    THEN [op |-> "raised", error |-> raw_results.error]
    ELSE
    LET segments == process_search_results(raw_results.results) IN
    IF segments = <<>>
    THEN Result(SearchResponse("I don't have enough information.", <<>>, <<>>),
                1, 1, 0, 0)
    ELSE generate_with_retries(call, segments, 0)

\* generate_response making its first model call before it validates its
\* arguments and searches.
generate_response_model_first(call) ==
    LET e1 == validate_query(call.query) IN
    IF e1 # NoError THEN Result(InvalidInput(e1[1]), 0, 0, 1, 0)
    ELSE
    LET e2 == validate_search_params(call.k, call.score_threshold) IN
    IF e2 # NoError THEN Result(InvalidInput(e2[1]), 0, 0, 1, 0)
    ELSE
    LET raw_results ==
            retriever_search(SearchCall(call.k.value,
                                        <<call.score_threshold.value>>,
                                        call.backendRaises, call.results))
    IN
    IF raw_results.op = "raised"
    THEN Result(InvalidInput([type |-> raw_results.error,
                              msg |-> "search() got an unexpected keyword argument 'score_threshold'"]),
                1, 0, 1, 0)
    ELSE
    LET segments == process_search_results(raw_results.results) IN
    IF segments = <<>>
    THEN Result(SearchResponse("I don't have enough information.", <<>>, <<>>),
                1, 1, 1, 0)
    ELSE generate_with_retries(call, segments, 0)

\* VideoResponseGenerator.generate_response (generator.py 208-277)
generate_response(call) ==
    LET e1 == validate_query(call.query) IN
    IF e1 # NoError THEN Result(InvalidInput(e1[1]), 0, 0, 0, 0)
    ELSE
    LET e2 == validate_search_params(call.k, call.score_threshold) IN
    IF e2 # NoError THEN Result(InvalidInput(e2[1]), 0, 0, 0, 0)
    ELSE
    LET raw_results ==
            retriever_search(SearchCall(call.k.value,
                                        <<call.score_threshold.value>>,
                                        call.backendRaises, call.results))
    IN
    IF raw_results.op = "raised"
    THEN Result(InvalidInput([type |-> raw_results.error,
                              msg |-> "search() got an unexpected keyword argument 'score_threshold'"]),
                1, 0, 0, 0)
    ELSE
    LET segments == process_search_results(raw_results.results) IN
    IF segments = <<>>
    THEN Result(SearchResponse("I don't have enough information.", <<>>, <<>>),
                1, 1, 0, 0)
    ELSE generate_with_retries(call, segments, 0)

DoGenerate ==
    /\ genIn.op = "generate"
    /\ genOut = Idle
    /\ genOut' = generate_response(genIn)
    /\ UNCHANGED <<genIn, indexerVars, searchVars, mergeVars, rtVars, exVars, rdVars, raceVars>>

GenInit ==
    /\ IndexerInit /\ SearchIdle /\ MergeIdle /\ RtIdle /\ ExInit /\ ReadyIdle /\ CallsIdle
    /\ genIn \in GenerateCalls
    /\ genOut = Idle

GenNext == DoGenerate

SpecGen == GenInit /\ [][GenNext]_vars

(***************************************************************************)
(* Claims about the answer synthesizer (specification SpecGen)             *)
(***************************************************************************)

Answered == genOut.op = "returned"

\* The validation failures named by the claim, read off the arguments.
QueryLengthOutside ==
    genIn.query.type = "str" /\ (genIn.query.core < 3 \/ genIn.query.core > 500)
KNotPositiveInteger == genIn.k.type # "int" \/ genIn.k.value <= 0
ThresholdOutside ==
    genIn.score_threshold.type \in {"int", "float"}
    /\ (genIn.score_threshold.value < 0 \/ genIn.score_threshold.value > 10)
ValidArguments ==
    /\ genIn.query.type = "str" /\ genIn.query.core >= 3 /\ genIn.query.core <= 500
    /\ genIn.k.type = "int" /\ genIn.k.value >= 1
    /\ genIn.score_threshold.type \in {"int", "float"}
    /\ genIn.score_threshold.value >= 0 /\ genIn.score_threshold.value <= 10

\* C9: Validation failure: when the trimmed query length is outside
\* [3, 500], or k is not a positive integer, or score_threshold is outside
\* [0, 1], generate_response returns has_error = true and the answer
\* "I don't have enough information", and calls neither the search nor the
\* language model.
C9_ValidationFailure ==
    (genOut # Idle /\ (QueryLengthOutside \/ KNotPositiveInteger \/ ThresholdOutside)) =>
        /\ Answered
        /\ has_error(genOut.response)
        /\ genOut.response.answer = "I don't have enough information"
        /\ genOut.searchCalls = 0
        /\ genOut.storeQueries = 0
        /\ genOut.llmCalls = 0

\* The query "ab" between blanks (trimmed length 2, raw length 3 or more)
\* with valid k and score_threshold was answered.
C9_Witness ==
    /\ Answered
    /\ genIn.query.type = "str" /\ genIn.query.core = 2 /\ genIn.query.lead = 1
    /\ ~KNotPositiveInteger /\ ~ThresholdOutside
    /\ genIn.score_threshold.type \in {"int", "float"}
    /\ has_error(genOut.response)

\* C10: Ungrounded answer: for a valid query and valid parameters, when the
\* search yields zero valid segments, generate_response returns
\* has_error = false, answer "I don't have enough information." and no
\* sources.
C10_Ungrounded ==
    (genOut # Idle /\ ValidArguments /\ genIn.results = <<>>) =>
        /\ Answered
        /\ ~has_error(genOut.response)
        /\ genOut.response.answer = "I don't have enough information."
        /\ genOut.response.sources = <<>>

\* The search of the invocation has a candidate with a text: the query is
\* grounded once the arguments are valid.
Grounded ==
    /\ ~genIn.backendRaises
    /\ \E i \in 1..Len(genIn.results) : genIn.results[i].doc.page_content # <<>>

RateLimitedTwice == <<"rate limit", "rate limit", "ok">>
RateLimitedAlways == <<"rate limit", "rate limit", "rate limit">>

\* C11: Retry then succeed: with max_retries = 3, a valid grounded query
\* whose model call raises a rate-limit failure on the first two attempts
\* and succeeds on the third yields a response with has_error = false whose
\* answer is the third attempt's text.
C11_RetryThenSucceed ==
    (genOut # Idle /\ ValidArguments /\ Grounded
     /\ genIn.max_retries = 3 /\ genIn.llm = RateLimitedTwice) =>
        /\ Answered
        /\ ~has_error(genOut.response)
        /\ genOut.response.answer = ModelText(3)

\* C12: Bounded retries: in one generate_response invocation the language
\* model is called at most max_retries times, a fixed retry_delay wait
\* separates every two consecutive attempts, and the invocation always
\* terminates even if every attempt is rate-limited.
C12_BoundedRetries ==
    genOut # Idle =>
        /\ genOut.llmCalls <= genIn.max_retries
        /\ genOut.llmCalls >= 1 => genOut.sleeps = genOut.llmCalls - 1
        /\ genOut.llmCalls = 0 => genOut.sleeps = 0

\* C13: Retry exhaustion: when every one of the max_retries model attempts
\* fails with a rate-limit signal, generate_response returns a FAILED
\* response (has_error = true) whose error is the rate-limit-specific
\* message, different from the error text of any other failure.
C13_RetryExhaustion ==
    (genOut # Idle /\ ValidArguments /\ Grounded
     /\ genIn.max_retries = 3 /\ genIn.llm = RateLimitedAlways) =>
        /\ Answered
        /\ has_error(genOut.response)
        /\ genOut.response.error = <<"Rate limit exceeded. Please try again later.">>

\* C14: Uniform response shape: for every combination of inputs (query, k,
\* score_threshold, max_retries) and every behaviour of the search backend
\* and the model, generate_response ends by returning a SearchResponse
\* (answer, sources, optional error); it never raises to the caller and
\* never returns anything that is not a SearchResponse.
C14_UniformResponse ==
    genOut # Idle =>
        /\ genOut.op = "returned"
        /\ DOMAIN genOut.response = {"answer", "sources", "error"}
        /\ Len(genOut.response.error) \in {0, 1, 2}

\* An invocation with valid arguments, a grounded search and max_retries = 0
\* has handed back a response.
C14_Witness ==
    /\ genOut # Idle
    /\ genOut.op = "returned"
    /\ ValidArguments /\ Grounded /\ genIn.max_retries = 0

\* C15: For every SearchResponse produced by generate_response, has_error
\* is true exactly when error is set, and every response with an error
\* carries the non-empty fallback answer "I don't have enough information".
C15_ErrorFallback ==
    Answered =>
        /\ has_error(genOut.response) <=> genOut.response.error # <<>>
        /\ genOut.response.error # <<>> =>
               genOut.response.answer = "I don't have enough information"

\* A response with an error was produced for a number passed as the query.
C15_Witness ==
    /\ Answered
    /\ genIn.query.type = "none"
    /\ genOut.response.error # <<>>
    /\ has_error(genOut.response)

\* C26: A failure of the model call that is not a rate-limit signal is not
\* retried: no further model call follows it and the response is a FAILED
\* one whose error is not the rate-limit message.
C26_OtherFailureNotRetried ==
    (genOut # Idle /\ ValidArguments /\ Grounded
     /\ genIn.max_retries = 3 /\ genIn.llm = <<"error">>) =>
        /\ Answered
        /\ genOut.llmCalls <= 1
        /\ genOut.sleeps = 0
        /\ has_error(genOut.response)
        /\ genOut.response.error # <<"Rate limit exceeded. Please try again later.">>

\* C28: The language model is called only after validation has passed and
\* the search has produced at least one valid segment: no model call
\* happens on a validation failure, on a search that yields no valid
\* segment, or before the search has returned.
C28_ModelCalledLast ==
    genOut # Idle =>
        /\ ~ValidArguments => genOut.llmCalls = 0
        /\ genOut.storeQueries = 0 => genOut.llmCalls = 0
        /\ ~Grounded => genOut.llmCalls = 0
        /\ genOut.llmCalls > 0 =>
               /\ ValidArguments
               /\ Grounded
               /\ genOut.searchCalls = 1

\* An invocation whose query passed validation and whose k did not, with a
\* store that had a segment and a model that would have answered: it ended
\* with no search and no model call.
C28_Witness ==
    /\ Answered
    /\ genIn.query.type = "str" /\ genIn.query.core = 3
    /\ KNotPositiveInteger
    /\ Grounded /\ genIn.llm = <<"ok">> /\ genIn.max_retries = 3
    /\ genOut.searchCalls = 0
    /\ genOut.llmCalls = 0

\* The error of the response is an "Invalid input: ..." text.
InvalidInputError ==
    genOut.response.error # <<>> /\ genOut.response.error[1] = "Invalid input: "

\* C29: An "Invalid input" error is returned only when query or parameter
\* validation failed: no response whose error starts with "Invalid input:"
\* is produced for a query and parameters that pass _validate_query and
\* _validate_search_params, whatever the search backend or the model does.
C29_InvalidInputOnlyOnValidation ==
    (Answered /\ ValidArguments) => ~InvalidInputError

(***************************************************************************)
(* VIDEO SEGMENT ROUND TRIP (VideoSegment.to_dict / VideoSegment.from_dict) *)
(***************************************************************************)

\* Bound on the length of a segment text in the model.
MaxTextLen == 3

\* VideoSegment values: a text (any string the constructor is given, blanks
\* included), a video file name, a VideoTimestamp and a score in tenths.
\* The metadata map is carried through both conversions untouched and is
\* left out.
SegmentTexts == SeqsUpTo({" ", "a"}, MaxTextLen)

VideoSegments ==
    [text : SegmentTexts,
     video : {VideoName(VideoA), VideoName(VideoAB)},
     timestamp : [start : {Hms(0, 0, 1)}, end : {Hms(0, 0, 2), Hms(0, 0, 3)}],
     score : Scores]

\* to_dict writing the start of the timestamp in the place of its end.
to_dict_end_from_start(segment) ==
    [text |-> segment.text, video |-> segment.video,
     timestamp |-> [start |-> segment.timestamp.start,
                    end |-> segment.timestamp.start],
     score |-> segment.score]

\* VideoSegment.to_dict
to_dict(segment) ==
    [text |-> segment.text, video |-> segment.video,
     timestamp |-> [start |-> segment.timestamp.start,
                    end |-> segment.timestamp.end],
     score |-> segment.score]

RoundTrip ==
    /\ segIn.op = "round_trip"
    /\ segOut = Idle
    /\ segOut' = [op |-> "done", dict |-> to_dict(segIn.segment),
                  segment |-> from_dict(to_dict(segIn.segment))]
    /\ UNCHANGED <<segIn, indexerVars, searchVars, mergeVars, genVars, exVars, rdVars, raceVars>>

RoundTripInit ==
    /\ IndexerInit /\ SearchIdle /\ MergeIdle /\ GenIdle /\ ExInit /\ ReadyIdle /\ CallsIdle
    /\ segIn \in [op : {"round_trip"}, segment : VideoSegments]
    /\ segOut = Idle

RoundTripNext == RoundTrip

SpecRoundTrip == RoundTripInit /\ [][RoundTripNext]_vars

(***************************************************************************)
(* Claims about the round trip (specification SpecRoundTrip)               *)
(***************************************************************************)

\* The text has no blank at either end.
Trimmed(text) == text = <<>> \/ (Head(text) # " " /\ text[Len(text)] # " ")

\* C16: Round trip: for every VideoSegment s, VideoSegment.from_dict(s.to_dict())
\* is equal to s in text, video, timestamp and score.
C16_RoundTrip ==
    segOut # Idle =>
        /\ segOut.segment.text = segIn.segment.text
        /\ segOut.segment.video = segIn.segment.video
        /\ segOut.segment.timestamp = segIn.segment.timestamp
        /\ segOut.segment.score = segIn.segment.score

\* C16 (amended): for every VideoSegment s, from_dict(s.to_dict()) is equal
\* to s in video, timestamp and score; its text is equal to the text of s
\* when that text has no leading or trailing whitespace (as every segment
\* built by from_dict has), and otherwise it is the text of s without them:
\* no blank at either end, and a contiguous part of the text of s.
C16_RoundTripTrimmed ==
    segOut # Idle =>
        /\ segOut.segment.video = segIn.segment.video
        /\ segOut.segment.timestamp = segIn.segment.timestamp
        /\ segOut.segment.score = segIn.segment.score
        /\ Trimmed(segIn.segment.text) =>
               segOut.segment.text = segIn.segment.text
        /\ Trimmed(segOut.segment.text)
        /\ Contains(segIn.segment.text, segOut.segment.text)
        /\ \A i \in 1..Len(segIn.segment.text) :
               segIn.segment.text[i] # " " =>
                   \E j \in 1..Len(segOut.segment.text) :
                       segOut.segment.text[j] = segIn.segment.text[i]

\* A segment whose text "a a" has a blank inside and none at its ends has
\* made the round trip.
C16_Witness ==
    /\ segOut # Idle
    /\ segIn.segment.text = <<"a", " ", "a">>
    /\ segIn.segment.timestamp.end # segIn.segment.timestamp.start
    /\ segOut.segment.text = <<"a", " ", "a">>

(***************************************************************************)
(* CAPTION EXTRACTOR (src/extractor/genai_extractor.py)                    *)
(***************************************************************************)

\* Bound on the extractor's clock in the model.
MaxClock == 4

\* generate_filename: "<base name>_<time of the call>.vtt"
CaptionFile(v, t) == [stem |-> Stem(v), stamp |-> t]

\* What transcribe_video does in one run for one video.
TranscribeEnvs == {"ok", "transcribe_raises"}

\* The files and the status map the extractor works on.
ExtractorState ==
    [clock |-> clock, mtimes |-> mtimes, captionFiles |-> captionFiles,
     transcriptStatus |-> transcriptStatus]

\* should_process_video with the comparison of the two times turned round.
should_process_video_inverted(fs, v) ==
    LET record == fs.transcriptStatus[v] IN
    IF record = <<>> THEN TRUE
    ELSE IF record[1].vtt_file \notin fs.captionFiles THEN TRUE
    ELSE fs.mtimes[v] < record[1].last_processed

\* should_process_video: a video without a status record, or whose recorded
\* .vtt file is gone, needs processing; otherwise it does when it was
\* modified after it was last processed.
should_process_video(fs, v) ==
    LET record == fs.transcriptStatus[v] IN
    IF record = <<>> THEN TRUE
    ELSE IF record[1].vtt_file \notin fs.captionFiles THEN TRUE
    ELSE fs.mtimes[v] > record[1].last_processed

\* update_transcript_status: nothing is written when the video has a record
\* whose .vtt file exists and whose modified_time is the file's; otherwise
\* the record of the video is replaced.
update_transcript_status(fs, v, vtt_file) ==
    LET record == fs.transcriptStatus[v] IN
    IF record # <<>> /\ record[1].vtt_file \in fs.captionFiles
       /\ fs.mtimes[v] = record[1].modified_time
    THEN fs
    ELSE [fs EXCEPT !.transcriptStatus[v] =
             <<[last_processed |-> fs.clock, modified_time |-> fs.mtimes[v],
                vtt_file |-> vtt_file]>>]

\* The body of the loop of transcribe_videos for one video; decisions
\* records what was done with every video.
transcribe_one(fs, v, env) ==
    IF ~should_process_video(fs, v)
    THEN [fs |-> fs, decision |-> "skipped"]
    ELSE IF env = "transcribe_raises"
    THEN [fs |-> fs, decision |-> "failed"]
    ELSE LET vtt_file == CaptionFile(v, fs.clock)
             written == [fs EXCEPT !.captionFiles = @ \cup {vtt_file}]
         IN  [fs |-> update_transcript_status(written, v, vtt_file),
              decision |-> "processed"]

\* transcribe_videos: the loop over get_video_files().
RECURSIVE transcribe_videos(_, _, _, _)
transcribe_videos(fs, order, envs, decisions) ==
    IF order = <<>> THEN [fs |-> fs, decisions |-> decisions]
    ELSE LET r == transcribe_one(fs, Head(order), envs[Head(order)]) IN
         transcribe_videos(r.fs, Tail(order), envs,
                           decisions @@ (Head(order) :> r.decision))

TranscribeVideos ==
    /\ clock <= MaxClock
    /\ \E order \in Orders(Videos) : \E envs \in [Videos -> TranscribeEnvs] :
           LET r == transcribe_videos(ExtractorState, order, envs, <<>>) IN
           /\ captionFiles' = r.fs.captionFiles
           /\ transcriptStatus' = r.fs.transcriptStatus
           /\ lastRun' = [op |-> "transcribe_videos",
                          before |-> ExtractorState, decisions |-> r.decisions]
    /\ clock' = clock + 1
    /\ UNCHANGED <<mtimes, indexerVars, searchVars, mergeVars, genVars, rtVars, rdVars, raceVars>>

\* A video file is rewritten: its modification time becomes the current time.
TouchVideo(v) ==
    /\ clock <= MaxClock
    /\ mtimes' = [mtimes EXCEPT ![v] = clock]
    /\ clock' = clock + 1
    /\ lastRun' = [op |-> "file_change"]
    /\ UNCHANGED <<captionFiles, transcriptStatus>>
    /\ UNCHANGED <<indexerVars, searchVars, mergeVars, genVars, rtVars, rdVars, raceVars>>

\* A caption file is removed from TRANSCRIPTS_DIR.
DeleteCaption(f) ==
    /\ f \in captionFiles
    /\ captionFiles' = captionFiles \ {f}
    /\ lastRun' = [op |-> "file_change"]
    /\ UNCHANGED <<clock, mtimes, transcriptStatus>>
    /\ UNCHANGED <<indexerVars, searchVars, mergeVars, genVars, rtVars, rdVars, raceVars>>

ExtractInit ==
    /\ IndexerInit /\ SearchIdle /\ MergeIdle /\ GenIdle /\ RtIdle
    /\ ExInit /\ ReadyIdle /\ CallsIdle

ExtractNext ==
    \/ TranscribeVideos
    \/ \E v \in Videos : TouchVideo(v)
    \/ \E f \in captionFiles : DeleteCaption(f)

SpecExtract == ExtractInit /\ [][ExtractNext]_vars

(***************************************************************************)
(* Claims about the extractor (specification SpecExtract)                  *)
(***************************************************************************)

Ran == lastRun.op = "transcribe_videos"

\* The caption files that match a video: base name, without the timestamp
\* suffix, equal to the base name of the video.
MatchingCaptions(files, v) == {f \in files : f.stem = Stem(v)}

ReadyTimeout == 30
RetrySleep == 2

\* What es_client.ping() does: it answers True, answers False, or raises;
\* and the seconds one call takes.
PingOutcomes == {"ok", "false", "raises"}
MaxPingDuration == 4
PingDurations == {1, MaxPingDuration}

\* The test of line 36 taking every answer of ping() for a success.
ping_succeeded_any_answer(outcome) == outcome # "raises"

\* if es_client.ping(): ... break
ping_succeeded(outcome) == outcome = "ok"

\* One turn of the while loop (lines 34-41): the condition held, ping() was
\* called at time elapsed and took d seconds.
Poll(outcome, d) ==
    /\ readiness.pc = "polling"
    /\ readiness.elapsed < ReadyTimeout
    /\ readiness' =
           [pc |-> IF ping_succeeded(outcome) THEN "returned" ELSE "polling",
            elapsed |-> readiness.elapsed + d
                        + (IF outcome = "raises" THEN RetrySleep ELSE 0),
            pings |-> readiness.pings + 1,
            pingStart |-> readiness.elapsed,
            lastPing |-> outcome]
    /\ UNCHANGED <<indexerVars, searchVars, mergeVars, genVars, rtVars, exVars, raceVars>>

\* The else branch of the while loop (lines 42-43): the condition failed.
Expire ==
    /\ readiness.pc = "polling"
    /\ readiness.elapsed >= ReadyTimeout
    /\ readiness' = [readiness EXCEPT !.pc = "raised"]
    /\ UNCHANGED <<indexerVars, searchVars, mergeVars, genVars, rtVars, exVars, raceVars>>

ReadyInit ==
    /\ IndexerInit /\ SearchIdle /\ MergeIdle /\ GenIdle /\ RtIdle /\ ExInit
    /\ CallsIdle
    /\ readiness = [pc |-> "polling", elapsed |-> 0, pings |-> 0,
                    pingStart |-> 0, lastPing |-> "none"]

ReadyNext ==
    \/ \E outcome \in PingOutcomes, d \in PingDurations : Poll(outcome, d)
    \/ Expire

\* The loop is sequential code: it always takes its next turn.
SpecReady == ReadyInit /\ [][ReadyNext]_vars /\ WF_vars(ReadyNext)

(***************************************************************************)
(* Claims about the readiness check (specification SpecReady)              *)
(***************************************************************************)

\* C22: The vector-store readiness check never blocks indefinitely:
\* init_vector_store polls until the store answers a ping or the fixed
\* 30-second timeout elapses, returns a store only after a successful ping,
\* and raises after the timeout otherwise.
C22_ReadinessBounded ==
    /\ [](readiness.pc = "returned" => readiness.lastPing = "ok")
    /\ [](readiness.pc = "raised" =>
             readiness.elapsed >= ReadyTimeout /\ readiness.lastPing # "ok")
    /\ [](readiness.pingStart < ReadyTimeout)
    /\ [](readiness.elapsed < ReadyTimeout + MaxPingDuration + RetrySleep)
    /\ <>(readiness.pc \in {"returned", "raised"})

\* The check raised after more than five pings that were not answered.
C22_Witness ==
    /\ readiness.pc = "raised"
    /\ readiness.pings > 5
    /\ readiness.elapsed >= ReadyTimeout

(***************************************************************************)
(* TWO CONCURRENT upsert_video CALLS (VideoTranscriptionStore.upsert_video)*)
(***************************************************************************)

Callers == 1..2

\* Directories the two calls may find: no caption file, captions of a.mp4
\* (with and without cues), captions of both videos.
RaceTranscripts ==
    {<<>>,
     <<[name |-> VttA, content |-> <<>>]>>,
     <<[name |-> VttA, content |-> <<Cue1, Cue2, Cue1>>]>>,
     <<[name |-> VttAB, content |-> <<Cue1, Cue1>>],
       [name |-> VttA, content |-> <<Cue1, Cue2, Cue1>>]>>}

\* A call that has not run yet: its argument, what the environment will do
\* to it, and its position in upsert_video.
NewCall(v, env) ==
    [video |-> v, env |-> env, pc |-> "start",
     checked |-> FALSE, indexSeen |-> FALSE, answer |-> FALSE, writesSeen |-> 0,
     hadCues |-> FALSE, outcome |-> "running", added |-> 0]

\* The caption file find_matching_transcript gives for v has cues.
HasCues(dir, v) ==
    LET found == find_matching_transcript(dir, v) IN
    found # <<>> /\ found[1].content # <<>>

\* Calls that have written their documents to the store.
Writers == {c \in Callers : calls[c].outcome = "upserted"}

\* Lines 94-105 of upsert_video run by call c: the video file test and the
\* existence check, on the store as it is now.
CheckStep(c) ==
    LET call == calls[c]
        st == IndexerState
        exists == call.video \in st.videoFiles
        answer == is_video_upserted(st, call.video, call.env)
    IN
    /\ call.pc = "start"
    /\ calls' = [calls EXCEPT ![c] =
           IF ~exists
           THEN [call EXCEPT !.pc = "done", !.outcome = "not_found"]
           ELSE [call EXCEPT !.pc = IF answer THEN "done" ELSE "checked",
                             !.outcome = IF answer THEN "skipped" ELSE "running",
                             !.checked = TRUE,
                             !.indexSeen = st.indexExists,
                             !.answer = answer,
                             !.writesSeen = Cardinality(Writers)]]
    /\ UNCHANGED <<indexerVars, searchVars, mergeVars, genVars, rtVars, exVars, rdVars>>

\* Lines 107-160 of upsert_video run by call c, on the store as it is now.
AddStep(c) ==
    LET call == calls[c]
        st == upsert_after_check(IndexerState, call.video, call.env)
    IN
    /\ call.pc = "checked"
    /\ transcripts' = st.transcripts
    /\ indexExists' = st.indexExists
    /\ store' = st.store
    /\ calls' = [calls EXCEPT ![c] =
           [call EXCEPT !.pc = "done", !.outcome = st.outcome, !.added = st.added,
                        !.hadCues = HasCues(st.transcripts, call.video)]]
    /\ UNCHANGED <<videoFiles, transcriber, last>>
    /\ UNCHANGED <<searchVars, mergeVars, genVars, rtVars, exVars, rdVars>>

\* The two calls start on a store that is new, or on one into which ab.mp4
\* was upserted before.
RaceInit ==
    /\ \E files \in {{VideoA}, Videos}, dir \in RaceTranscripts,
          configured \in BOOLEAN, before \in BOOLEAN :
          LET new == [videoFiles |-> files, transcripts |-> dir,
                      transcriber |-> configured, indexExists |-> FALSE,
                      store |-> EmptyBag, outcome |-> "running", added |-> 0,
                      attempts |-> <<>>]
              st == IF before THEN upsert_video(new, VideoAB, "ok") ELSE new
          IN  /\ videoFiles = st.videoFiles
              /\ transcripts = st.transcripts
              /\ transcriber = st.transcriber
              /\ indexExists = st.indexExists
              /\ store = st.store
    /\ last = [op |-> "init"]
    /\ \E v1 \in Videos, v2 \in Videos, e1 \in UpsertEnvs, e2 \in UpsertEnvs :
          calls = [c \in Callers |-> IF c = 1 THEN NewCall(v1, e1) ELSE NewCall(v2, e2)]
    /\ SearchIdle /\ MergeIdle /\ GenIdle /\ RtIdle /\ ExInit /\ ReadyIdle

RaceNext ==
    \/ \E c \in Callers : CheckStep(c)
    \/ \E c \in Callers : AddStep(c)

SpecRace == RaceInit /\ [][RaceNext]_vars

(***************************************************************************)
(* Claims about concurrent calls (specification SpecRace)                  *)
(***************************************************************************)

DocumentsOf(v) ==
    {d \in BagToSet(store) : d.metadata.video_filename = VideoName(v)}

\* Both calls are for the same video and each passed its existence check
\* before any call had written.
BothPassedBeforeWrite ==
    /\ calls[1].video = calls[2].video
    /\ \A c \in Callers :
          calls[c].checked /\ ~calls[c].answer /\ calls[c].writesSeen = 0

\* C23: Check-then-upsert race: when two upsert_video calls for the same
\* not-yet-indexed video interleave so that both pass the existence check
\* before either has written, and both then add their documents, the store
\* holds every (text, start_time, end_time) document of that video twice.
C23_CheckThenUpsertRace ==
    (/\ BothPassedBeforeWrite
     /\ \A c \in Callers : calls[c].outcome = "upserted")
    => /\ DocumentsOf(calls[1].video) # {}
       /\ \A d \in DocumentsOf(calls[1].video) : CopiesIn(d, store) >= 2

\* Two undisturbed calls for a.mp4, not indexed before, both passed the
\* check before either wrote, both added, and its documents are stored twice.
C23_Witness ==
    /\ BothPassedBeforeWrite
    /\ calls[1].video = VideoA
    /\ \A c \in Callers :
          /\ calls[c].env = "ok"
          /\ calls[c].outcome = "upserted"
          /\ calls[c].added > 0
    /\ \E d \in DocumentsOf(VideoA) : CopiesIn(d, store) = 2

\* The call handed documents to add_documents (which embeds them).
Submitted(call) ==
    \/ call.outcome = "upserted"
    \/ call.outcome = "error" /\ call.env = "add_raises"

\* C24: Ordering in upsert_video: the existence check runs before any
\* document is submitted to the store, and a check made while the index
\* does not exist answers false (not an error), so that the call goes on and,
\* undisturbed and given captions, upserts the first video.
C24_CheckBeforeSubmit ==
    \A c \in Callers :
        LET call == calls[c] IN
        /\ Submitted(call) => call.checked /\ ~call.answer
        /\ (call.checked /\ ~call.indexSeen) =>
               /\ ~call.answer
               /\ call.outcome \notin {"skipped", "not_found"}
        /\ (/\ call.pc = "done" /\ call.checked /\ ~call.indexSeen
            /\ call.env \in {"ok", "check_raises"} /\ call.hadCues)
           => call.outcome = "upserted" /\ call.added > 0

\* The first video ever indexed: the index did not exist when the check
\* ran, the call went on and its documents created the index.
C24_Witness ==
    \E c \in Callers :
        /\ calls[c].checked /\ ~calls[c].indexSeen /\ ~calls[c].answer
        /\ calls[c].env = "ok"
        /\ calls[c].outcome = "upserted"
        /\ calls[c].writesSeen = 0
        /\ Cardinality(Writers) = 1
        /\ indexExists
        /\ BagCardinality(store) = calls[c].added

====
